---- MODULE Spec2Model ----
(***************************************************************************)
(* A model of @apiratorjs/with-backoff: one invocation of withBackoff (or  *)
(* of one of its convenience wrappers) together with its environment: the  *)
(* caller's operation, retryability predicate, onRetry callback, timer and *)
(* AbortController.                                                        *)
(* A second specification, SpecPure, calls the exported pure functions     *)
(* (createDelayList and the three error predicates) directly.              *)
(*                                                                         *)
(* Optional JavaScript values are encoded as sequences: <<>> is "absent"   *)
(* (an omitted key, or undefined) and <<v>> is the value v.                *)
(* Strings that are searched or compared (error messages) are sequences of *)
(* their characters.                                                       *)
(* Delay values are fixed-point numbers in units of 1/Scale milliseconds,  *)
(* so that base + base * jitter * Math.random() is computed exactly.       *)
(***************************************************************************)
EXTENDS Integers, Sequences, FiniteSets, TLC

\* ------------------------------------------------------------------ bounds

\* Largest maxAttempts a caller passes explicitly (0 is the degenerate budget).
MaxN == 3

\* jitter is drawn from {0, 1/JDen, ..., JDen/JDen}.
JDen == 2

\* Math.random() is drawn from {0, 1/UDen, ..., (UDen-1)/UDen}.
UDen == 2

\* One millisecond, in the units delays are held in.
Scale == JDen * UDen

None == <<>>

Some(v) == <<v>>

\* ------------------------------------------------------------- error values

\* err.cause: absent, an object with an optional code, or (for the
\* executor's AbortError) the signal's reason.
NoCause == [kind |-> "none", code |-> None, value |-> "none"]

CauseObj(code) == [kind |-> "obj", code |-> code, value |-> "none"]

CauseReason(r) == [kind |-> "reason", code |-> None, value |-> r]

\* err.response: absent, or an object with optional statusCode and status.
NoResponse == [present |-> FALSE, statusCode |-> None, status |-> None]

Response(sc, st) == [present |-> TRUE, statusCode |-> sc, status |-> st]

\* An error value.  cls is the class it is an instance of, origin says who
\* threw it, inv is the operation invocation that threw it (0 otherwise).
MkError(cls, origin, inv, message, cause) ==
    [cls |-> cls, origin |-> origin, inv |-> inv, message |-> message,
     cause |-> cause, code |-> None, statusCode |-> None,
     response |-> NoResponse]

\* new AbortError(reason, cause): message String(reason), name "AbortError".
AbortErrorMutNoCause(reason, cause) ==
    MkError("AbortError", "executor", 0, reason, NoCause)

\* new AbortError(signal.reason): the abort reason as the message, no cause.
AbortErrorMutReasonAsMessage(reason, cause) ==
    MkError("AbortError", "executor", 0, <<cause.value>>, NoCause)

AbortError(reason, cause) ==
    MkError("AbortError", "executor", 0, reason, cause)

\* "Backoff aborted"
BackoffAbortedMsg ==
    <<"B", "a", "c", "k", "o", "f", "f", " ", "a", "b", "o", "r", "t", "e",
      "d">>

\* "Max attempts exceeded"
MaxAttemptsExceededMsg ==
    <<"M", "a", "x", " ", "a", "t", "t", "e", "m", "p", "t", "s", " ", "e",
      "x", "c", "e", "e", "d", "e", "d">>

MaxAttemptsExceeded ==
    MkError("Error", "executor", 0, MaxAttemptsExceededMsg, NoCause)

\* Calling an undefined onRetry: "TypeError: onRetry is not a function".
NotAFunction ==
    MkError("TypeError", "executor", 0,
            <<"o", "n", "R", "e", "t", "r", "y", " ", "i", "s", " ", "n",
              "o", "t", " ", "a", " ", "f", "u", "n", "c", "t", "i", "o",
              "n">>,
            NoCause)

PredicateFault ==
    MkError("Error", "predicate", 0,
            <<"p", "r", "e", "d", "i", "c", "a", "t", "e", " ", "f", "a",
              "i", "l", "e", "d">>,
            NoCause)

ObserverFault ==
    MkError("Error", "onRetry", 0,
            <<"o", "n", "R", "e", "t", "r", "y", " ", "f", "a", "i", "l",
              "e", "d">>,
            NoCause)

\* ------------------------------------------------------------- predicates

NETWORK_ERROR_CODES ==
    {"ECONNRESET", "ENOTFOUND", "ETIMEDOUT", "EPIPE", "ENETUNREACH",
     "ECONNABORTED", "ECONNREFUSED", "ENETDOWN", "ENETRESET", "EALREADY",
     "EAI_AGAIN", "EHOSTUNREACH"}

\* "ECONNREFUSED"
MsgEconnrefused ==
    <<"E", "C", "O", "N", "N", "R", "E", "F", "U", "S", "E", "D">>

\* "ConnectionRefused"
MsgConnectionRefused ==
    <<"C", "o", "n", "n", "e", "c", "t", "i", "o", "n", "R", "e", "f", "u",
      "s", "e", "d">>

\* "SocksClient internal error (this should not happen)"
MsgSocksClientInternal ==
    <<"S", "o", "c", "k", "s", "C", "l", "i", "e", "n", "t", " ", "i", "n",
      "t", "e", "r", "n", "a", "l", " ", "e", "r", "r", "o", "r", " ", "(",
      "t", "h", "i", "s", " ", "s", "h", "o", "u", "l", "d", " ", "n", "o",
      "t", " ", "h", "a", "p", "p", "e", "n", ")">>

\* "Client network socket disconnected before secure TLS connection was established"
MsgTlsDisconnected ==
    <<"C", "l", "i", "e", "n", "t", " ", "n", "e", "t", "w", "o", "r", "k",
      " ", "s", "o", "c", "k", "e", "t", " ", "d", "i", "s", "c", "o", "n",
      "n", "e", "c", "t", "e", "d", " ", "b", "e", "f", "o", "r", "e", " ",
      "s", "e", "c", "u", "r", "e", " ", "T", "L", "S", " ", "c", "o", "n",
      "n", "e", "c", "t", "i", "o", "n", " ", "w", "a", "s", " ", "e", "s",
      "t", "a", "b", "l", "i", "s", "h", "e", "d">>

\* "Received invalid Socks5 initial handshake (invalid socks version)"
MsgSocks5Handshake ==
    <<"R", "e", "c", "e", "i", "v", "e", "d", " ", "i", "n", "v", "a", "l",
      "i", "d", " ", "S", "o", "c", "k", "s", "5", " ", "i", "n", "i", "t",
      "i", "a", "l", " ", "h", "a", "n", "d", "s", "h", "a", "k", "e", " ",
      "(", "i", "n", "v", "a", "l", "i", "d", " ", "s", "o", "c", "k", "s",
      " ", "v", "e", "r", "s", "i", "o", "n", ")">>

\* "socket hang up"
MsgSocketHangUp ==
    <<"s", "o", "c", "k", "e", "t", " ", "h", "a", "n", "g", " ", "u", "p">>

\* "Socks5 proxy rejected connection - ConnectionRefused"
MsgSocks5Rejected ==
    <<"S", "o", "c", "k", "s", "5", " ", "p", "r", "o", "x", "y", " ", "r",
      "e", "j", "e", "c", "t", "e", "d", " ", "c", "o", "n", "n", "e", "c",
      "t", "i", "o", "n", " ", "-", " ", "C", "o", "n", "n", "e", "c", "t",
      "i", "o", "n", "R", "e", "f", "u", "s", "e", "d">>

\* The phrases, in the order of the source.  A phrase matches a message when
\* it occurs in it as a contiguous, case-sensitive run of characters.
RETRYABLE_ERROR_MESSAGES ==
    <<MsgEconnrefused,
      MsgConnectionRefused,
      MsgSocksClientInternal,
      MsgTlsDisconnected,
      MsgSocks5Handshake,
      MsgSocketHangUp,
      MsgSocks5Rejected>>

\* a ?? b on optional values
Coalesce(a, b) == IF a /= None THEN a ELSE b

\* err.cause?.code
CauseCode(err) == IF err.cause.kind = "obj" THEN err.cause.code ELSE None

isNetworkError(err) ==
    LET code == Coalesce(CauseCode(err), err.code)
    IN  code /= None /\ code[1] /= "" /\ code[1] \in NETWORK_ERROR_CODES

\* x is truthy, for an optional number
TruthyNum(x) == x /= None /\ x[1] /= 0

\* a || b on optional numbers
OrNum(a, b) == IF TruthyNum(a) THEN a ELSE b

isInternalServerError(err) ==
    LET statusCode == OrNum(err.statusCode,
                            OrNum(err.response.statusCode, err.response.status))
    IN  TruthyNum(statusCode) /\ statusCode[1] >= 500

\* phrase occurs in message starting at character i
OccursAt(phrase, message, i) ==
    /\ i + Len(phrase) - 1 <= Len(message)
    /\ \A j \in 1..Len(phrase) : message[i + j - 1] = phrase[j]

\* new RegExp(escapeRegExp(phrase)).test(message): phrase is a substring
Contains(message, phrase) ==
    \E i \in 1..Len(message) : OccursAt(phrase, message, i)

\* The alternation of the escaped phrases matches when one of them does.
isConnectionErrorMessage(err) ==
    \E k \in 1..Len(RETRYABLE_ERROR_MESSAGES) :
        Contains(err.message, RETRYABLE_ERROR_MESSAGES[k])

\* ------------------------------------------------------------ the schedule

RECURSIVE Pow(_, _)
Pow(b, e) == IF e = 0 THEN 1 ELSE b * Pow(b, e - 1)

\* baseDelay - baseDelay * (jitter || 0) * Math.random(): jitter that subtracts.
WithJitterMutSubtract(baseDelay, j, u) == baseDelay * Scale - baseDelay * j * u

\* baseDelay + baseDelay * (jitter || 0) * Math.random(), in 1/Scale ms;
\* jitter is j/JDen and the draw is u/UDen.
WithJitter(baseDelay, j, u) == baseDelay * Scale + baseDelay * j * u

\* createDelayList with Math.pow(delayFactor, i + 1) in place of
\* Math.pow(delayFactor, i).
createDelayListMutFromOne(options, U) ==
    LET length == IF options.maxAttempts > 0 THEN options.maxAttempts ELSE 0
    IN  IF options.strategy = "exponential"
           THEN [i \in 1..length |->
                    WithJitter(options.delayMs * Pow(options.delayFactor, i),
                               options.jitter, U[i])]
        ELSE IF options.strategy = "linear"
           THEN [i \in 1..length |->
                    WithJitter(options.delayMs, options.jitter, U[i])]
        ELSE <<>>

\* createDelayList(options); U[i+1] is the draw of Math.random() for index i.
\* Array.from({length: maxAttempts}, f) has the entries f(0..maxAttempts-1),
\* held here at 1..maxAttempts.
createDelayList(options, U) ==
    LET length == IF options.maxAttempts > 0 THEN options.maxAttempts ELSE 0
        exponential ==
            [i \in 1..length |->
                WithJitter(options.delayMs * Pow(options.delayFactor, i - 1),
                           options.jitter, U[i])]
        linear ==
            [i \in 1..length |-> WithJitter(options.delayMs, options.jitter, U[i])]
    IN  IF options.strategy = "exponential" THEN exponential
        ELSE IF options.strategy = "linear" THEN linear
        ELSE <<>>

\* The second createDelayList of the repository, which reads relativeTo (an
\* optional instant, in milliseconds) from its options and adds it to every
\* entry.  Without relativeTo it returns what the first returns.
createDelayListRelativeTo(options, U) ==
    IF options.relativeTo /= None
       THEN [i \in 1..Len(createDelayList(options, U)) |->
                options.relativeTo[1] * Scale + createDelayList(options, U)[i]]
       ELSE createDelayList(options, U)

\* ---------------------------------------------------------------- options

DefaultOptionsMutRetryAll ==
    [maxAttempts |-> 6, delayMs |-> 20, delayFactor |-> 4, jitter |-> 0,
     strategy |-> "exponential", onRetry |-> "noop",
     isRetryable |-> "user", signal |-> "null"]

DEFAULT_OPTIONS ==
    [maxAttempts |-> 6, delayMs |-> 20, delayFactor |-> 4, jitter |-> 0,
     strategy |-> "exponential", onRetry |-> "noop",
     isRetryable |-> "alwaysFalse", signal |-> "null"]

\* The keys a caller's options object is read for: those of the defaults, and
\* relativeTo, which the README and the tests pass and the defaults lack.
OptionKeys == DOMAIN DEFAULT_OPTIONS \cup {"relativeTo"}

\* An options object with no key set.
NoOptions == [k \in OptionKeys |-> None]

\* {...DEFAULT_OPTIONS, ...options}: every key options carries wins, an
\* explicit undefined included.  A key the defaults lack is copied as it is
\* (an optional value: absent stays absent).
Merge(options) ==
    [k \in DOMAIN DEFAULT_OPTIONS \cup DOMAIN options |->
        IF k \in DOMAIN DEFAULT_OPTIONS
           THEN IF options[k] = None THEN DEFAULT_OPTIONS[k] ELSE options[k][1]
           ELSE options[k]]

\* The options object a convenience wrapper passes on:
\* {isRetryable: <bound predicate>, onRetry}.
BoundPredicate(fn) ==
    CASE fn = "withNetworkBackoff" -> "isNetworkError"
      [] fn = "withInternalServerErrorBackoff" -> "isInternalServerError"
      [] fn = "withConnectionErrorMessageBackoff" -> "isConnectionErrorMessage"

WrapperOptions(fn, onRetryArg) ==
    [NoOptions EXCEPT !.isRetryable = Some(BoundPredicate(fn)),
                      !.onRetry = Some(IF onRetryArg = None THEN "undefined"
                                       ELSE onRetryArg[1])]

\* ------------------------------------------------------ the caller's inputs

Entries ==
    {"withBackoff", "withNetworkBackoff", "withInternalServerErrorBackoff",
     "withConnectionErrorMessageBackoff"}

\* The schedule options callers pass: none, the exponential and the linear
\* schedule of the tests, and one with jitter 1/JDen.
DelayConfigs ==
    { [delayMs |-> None, delayFactor |-> None, jitter |-> None, strategy |-> None],
      [delayMs |-> Some(10), delayFactor |-> Some(2), jitter |-> Some(0),
       strategy |-> None],
      [delayMs |-> Some(10), delayFactor |-> None, jitter |-> Some(0),
       strategy |-> Some("linear")],
      [delayMs |-> Some(10), delayFactor |-> Some(2), jitter |-> Some(1),
       strategy |-> Some("exponential")] }

\* relativeTo.getTime() of the Date objects callers pass as relativeTo, in
\* milliseconds.
ReferenceInstants == {5000}

\* The options objects passed to withBackoff directly.  An explicit
\* onRetry: undefined is a key that is present.
CallerOptions ==
    { [maxAttempts |-> m, delayMs |-> d.delayMs, delayFactor |-> d.delayFactor,
       jitter |-> d.jitter, strategy |-> d.strategy, onRetry |-> o,
       isRetryable |-> r, signal |-> g, relativeTo |-> t] :
        m \in {None} \cup {Some(n) : n \in 0..MaxN},
        d \in DelayConfigs,
        o \in {None, Some("fn"), Some("undefined")},
        r \in {None, Some("user")},
        g \in {None, Some("signal")},
        t \in {None} \cup {Some(T) : T \in ReferenceInstants} }

\* Jitter above 0 comes with an explicit maxAttempts, which keeps the number
\* of schedules small; relativeTo comes, as in the test, with an explicit
\* budget, an explicit jitter of 0, an onRetry function and no signal.
Calls ==
    { [fn |-> "withBackoff", options |-> o, onRetry |-> None] :
        o \in { c \in CallerOptions :
                  /\ (c.jitter /= None /\ c.jitter[1] > 0) => c.maxAttempts /= None
                  /\ c.relativeTo /= None =>
                        /\ c.maxAttempts /= None
                        /\ c.jitter = Some(0)
                        /\ c.onRetry = Some("fn")
                        /\ c.signal = None } }
    \cup
    { [fn |-> f, options |-> NoOptions, onRetry |-> o] :
        f \in Entries \ {"withBackoff"}, o \in {None, Some("fn")} }

\* The values a controller is aborted with: an Error object, any other value.
Reasons == {"abortError", "customReason"}

\* "Attempt failed"
MsgAttemptFailed ==
    <<"A", "t", "t", "e", "m", "p", "t", " ", "f", "a", "i", "l", "e", "d">>

\* "read ECONNRESET"
MsgReadEconnreset ==
    <<"r", "e", "a", "d", " ", "E", "C", "O", "N", "N", "R", "E", "S", "E",
      "T">>

\* "Service Unavailable"
MsgServiceUnavailable ==
    <<"S", "e", "r", "v", "i", "c", "e", " ", "U", "n", "a", "v", "a", "i",
      "l", "a", "b", "l", "e">>

\* "connect ECONNREFUSED 127.0.0.1:80"
MsgConnectRefused ==
    <<"c", "o", "n", "n", "e", "c", "t", " ", "E", "C", "O", "N", "N", "R",
      "E", "F", "U", "S", "E", "D", " ", "1", "2", "7", ".", "0", ".", "0",
      ".", "1", ":", "8", "0">>

\* The errors the caller's operation throws on invocation inv.
OpErrorShapes == {"plain", "network", "status", "message", "abort"}

OpError(inv, shape) ==
    CASE shape = "plain" ->
            MkError("Error", "op", inv, MsgAttemptFailed, NoCause)
      [] shape = "network" ->
            MkError("Error", "op", inv, MsgReadEconnreset,
                    CauseObj(Some("ECONNRESET")))
      [] shape = "status" ->
            [MkError("Error", "op", inv, MsgServiceUnavailable, NoCause)
                EXCEPT !.response = Response(None, Some(503))]
      [] shape = "message" ->
            MkError("Error", "op", inv, MsgConnectRefused, NoCause)
      [] shape = "abort" ->
            MkError("AbortError", "op", inv, BackoffAbortedMsg,
                    CauseReason("innerReason"))

NoError == MkError("none", "none", 0, <<>>, NoCause)

\* A settled promise: fulfilled with a value or rejected with an error.
Fulfilled(v) == [state |-> "fulfilled", value |-> v, error |-> NoError]

Rejected(e) == [state |-> "rejected", value |-> 0, error |-> e]

Pending == [state |-> "pending", value |-> 0, error |-> NoError]

\* The shapes of error the operation of a call throws.  Under a caller's own
\* predicate only the class of an error matters to the executor; under a
\* bound predicate its fields do.
ShapesOf(c) ==
    IF c.fn = "withBackoff" THEN {"plain", "abort"} ELSE OpErrorShapes

\* What invocation inv of the operation of call c may settle with.
OpOutcomes(c, inv) ==
    {Fulfilled(inv)} \cup {Rejected(OpError(inv, s)) : s \in ShapesOf(c)}

\* What invocation inv of the operation of call c may throw before it
\* returns anything (an operation that is not an async function).
OpThrows(c, inv) == {OpError(inv, s) : s \in ShapesOf(c)}

\* ------------------------------------------------------------------ state

VARIABLES
    call,           \* the call made: [fn, options, onRetry]
    pc,             \* where the executor is
    mergedOptions,  \* mergedOptions of withBackoff
    delays,         \* the schedule, what is left of it
    attempt,        \* the attempt counter
    abortPromise,   \* "none" before the call, then "pending" or "rejected"
    raced,          \* abortPromise has been passed to a Promise.race
    signal,         \* the controller's signal: [aborted, reason]
    race,           \* the promise the executor awaits; at line 43, what the
                    \* try block ended with (the race, or what operation() threw)
    currentDelayMs, \* currentDelayMs, an optional number
    result,         \* the promise withBackoff returned
    opCalls,        \* how often the operation has been invoked
    opPending,      \* an invocation has started and has not settled
    opLog,          \* what each settled invocation settled with, in order
    predLog,        \* the predicate's calls: [error, outcome]
    retryLog,       \* onRetry's calls: [attempt, delay, error, outcome]
    waits,          \* the delays a timer was started for
    abortedAt,      \* where the executor was when abort was called ("never")
    schedule,       \* the list createDelayList returned, as it was returned
    probe           \* a direct call of an exported pure function (see below)

vars ==
    <<call, pc, mergedOptions, delays, attempt, abortPromise, raced, signal,
      race, currentDelayMs, result, opCalls, opPending, opLog, predLog,
      retryLog, waits, abortedAt, schedule, probe>>

envLogs == <<predLog, retryLog, waits>>

\* What no step of the executor after the call changes.
setup == <<call, schedule, probe>>

HasSignal == call.fn = "withBackoff" /\ call.options.signal = Some("signal")

\* signal?.aborted
SignalAborted == mergedOptions.signal /= "null" /\ signal.aborted

\* new AbortError("Backoff aborted", signal.reason)
BackoffAborted == AbortError(BackoffAbortedMsg, CauseReason(signal.reason))

\* No pure function is called directly.
NoProbe ==
    [fn |-> "none", options |-> <<>>, U |-> <<>>, V |-> <<>>, err |-> NoError,
     returned |-> None]

Init ==
    /\ call \in Calls
    /\ probe = NoProbe
    /\ schedule = <<>>
    /\ pc = "start"
    /\ mergedOptions = DEFAULT_OPTIONS
    /\ delays = <<>>
    /\ attempt = 1
    /\ abortPromise = "none"
    /\ raced = FALSE
    /\ signal = [aborted |-> FALSE, reason |-> "none"]
    /\ race = Pending
    /\ currentDelayMs = None
    /\ result = Pending
    /\ opCalls = 0
    /\ opPending = FALSE
    /\ opLog = <<>>
    /\ predLog = <<>>
    /\ retryLog = <<>>
    /\ waits = <<>>
    /\ abortedAt = "never"

\* ---------------------------------------------------------------- actions

\* throw e out of withBackoff
Throw(e) ==
    /\ pc' = "done"
    /\ result' = Rejected(e)

\* line 40: attempt <= maxAttempts && !signal?.aborted
LoopConditionMutNoSignal(a, options, aborted) == a <= options.maxAttempts

LoopCondition(a, options, aborted) ==
    a <= options.maxAttempts /\ ~(options.signal /= "null" /\ aborted)

\* line 44: error instanceof AbortError
IsAbortErrorMutNever(error) == FALSE

IsAbortError(error) == error.cls = "AbortError"

\* line 48: attempt === maxAttempts
BudgetExhaustedMutNever(a, options) == FALSE

\* attempt === maxAttempts + 1: the budget test one attempt late
BudgetExhaustedMutLate(a, options) == a = options.maxAttempts + 1

BudgetExhausted(a, options) == a = options.maxAttempts

\* Lines 43-52, with the error caught at attempt a: an AbortError and the
\* error of the last attempt are rethrown, any other is handed to isRetryable.
Caught(error, a, options) ==
    IF IsAbortError(error) \/ BudgetExhausted(a, options)
       THEN Throw(error)
       ELSE /\ pc' = "classify"
            /\ UNCHANGED result

\* Lines 40-52 and 70-74, with the attempt counter at a: either the
\* operation is invoked, or the loop is left.  An invocation that returns (a
\* promise or a value) is raced against abortPromise; one that throws is
\* caught at once, and Promise.race is not called.
LoopTop(a, options) ==
    /\ attempt' = a
    /\ IF LoopCondition(a, options, signal.aborted)
          THEN /\ opCalls' = opCalls + 1
               /\ \/ /\ pc' = "attempt"
                     /\ opPending' = TRUE
                     /\ race' = Pending
                     /\ raced' = TRUE
                     /\ UNCHANGED <<result, opLog>>
                  \/ \E e \in OpThrows(call, opCalls + 1) :
                        /\ opLog' = Append(opLog, Rejected(e))
                        /\ race' = Rejected(e)
                        /\ Caught(e, a, options)
                        /\ UNCHANGED <<opPending, raced>>
          ELSE /\ IF options.signal /= "null" /\ signal.aborted
                     THEN Throw(BackoffAborted)
                     ELSE Throw(MaxAttemptsExceeded)
               /\ UNCHANGED <<opCalls, opPending, race, opLog, raced>>

\* The options withBackoff receives: the caller's, or the wrapper's.
PassedOptions ==
    IF call.fn = "withBackoff" THEN call.options
    ELSE WrapperOptions(call.fn, call.onRetry)

\* What createDelayList(mergedOptions) at line 28 can return with the draws
\* U.  The repository holds two sources of ./create-delay-list and
\* withBackoff is built with either: the one that ignores relativeTo or the
\* one that adds it.
DelayLists(options, U) ==
    {createDelayList(options, U), createDelayListRelativeTo(options, U)}

\* Lines 17-40: the call, up to the first await (or the exit).
Call ==
    /\ pc = "start"
    /\ LET options == Merge(PassedOptions)
       IN  /\ mergedOptions' = options
           /\ \E U \in [1..(IF options.maxAttempts > 0 THEN options.maxAttempts ELSE 0)
                          -> 0..(UDen - 1)] :
                 \E list \in DelayLists(options, U) :
                    /\ delays' = list
                    /\ schedule' = list
           /\ abortPromise' = IF options.signal /= "null" /\ signal.aborted
                                 THEN "rejected" ELSE "pending"
           /\ LoopTop(1, options)
    /\ UNCHANGED <<call, signal, currentDelayMs, envLogs, abortedAt, probe>>

\* controller.abort(reason): the signal becomes aborted; once withBackoff has
\* registered its listener, abortPromise is rejected, and with it the race
\* the executor is waiting on.
Abort ==
    /\ HasSignal
    /\ ~signal.aborted
    /\ \E r \in Reasons :
          /\ signal' = [aborted |-> TRUE, reason |-> r]
          /\ IF pc \in {"attempt", "waiting"}
                THEN /\ race' = Rejected(AbortError(BackoffAbortedMsg, CauseReason(r)))
                     /\ pc' = IF pc = "attempt" THEN "attemptSettled" ELSE "waitSettled"
                ELSE UNCHANGED <<race, pc>>
    /\ abortPromise' = IF abortPromise = "pending" THEN "rejected" ELSE abortPromise
    /\ abortedAt' = pc
    /\ UNCHANGED <<mergedOptions, delays, attempt, currentDelayMs, result,
                   opCalls, opPending, opLog, envLogs, setup, raced>>

\* The outstanding invocation of the operation settles and wins the race.
OpSettles ==
    /\ pc = "attempt"
    /\ opPending
    /\ \E o \in OpOutcomes(call, opCalls) :
          /\ race' = o
          /\ opLog' = Append(opLog, o)
    /\ opPending' = FALSE
    /\ pc' = "attemptSettled"
    /\ UNCHANGED <<setup, abortedAt, mergedOptions, delays, attempt, abortPromise, signal,
                   currentDelayMs, result, opCalls, envLogs, raced>>

\* An invocation the executor no longer waits for settles: nobody listens.
OpSettlesLate ==
    /\ pc /= "attempt"
    /\ opPending
    /\ \E o \in OpOutcomes(call, opCalls) : opLog' = Append(opLog, o)
    /\ opPending' = FALSE
    /\ UNCHANGED <<setup, abortedAt, pc, mergedOptions, delays, attempt, abortPromise, signal,
                   race, currentDelayMs, result, opCalls, envLogs, raced>>

\* Lines 42-52: the race of the attempt has settled.  A value is returned;
\* an error is caught.
AfterAttempt ==
    /\ pc = "attemptSettled"
    /\ IF race.state = "fulfilled"
          THEN /\ pc' = "done"
               /\ result' = Fulfilled(race.value)
          ELSE Caught(race.error, attempt, mergedOptions)
    /\ UNCHANGED <<setup, abortedAt, mergedOptions, delays, attempt, abortPromise, signal,
                   race, currentDelayMs, opCalls, opPending, opLog, envLogs, raced>>

\* A verdict of a predicate, as the outcome of its call.
Verdict(b) == IF b THEN "true" ELSE "false"

\* What a call of isRetryable on error can come to: "true", "false", "throw".
PredicateOutcomes(isRetryable, error) ==
    CASE isRetryable = "alwaysFalse" -> {"false"}
      [] isRetryable = "isNetworkError" -> {Verdict(isNetworkError(error))}
      [] isRetryable = "isInternalServerError" ->
            {Verdict(isInternalServerError(error))}
      [] isRetryable = "isConnectionErrorMessage" ->
            {Verdict(isConnectionErrorMessage(error))}
      [] isRetryable = "user" -> {"true", "false", "throw"}

\* line 52: !(await isRetryable(error)) throws; anything else retries
ShouldRetryMutAlways(v) == TRUE

ShouldRetry(v) == v = "true"

\* delays.pop() in place of delays.shift(): the last entry
ShiftMutLast(list) == IF list = <<>> THEN None ELSE Some(list[Len(list)])

\* delays.shift(): the first entry (undefined when there is none)
Shift(list) == IF list = <<>> THEN None ELSE Some(Head(list))

\* delays.shift(): what is left of the list
ShiftedMutKeep(list) == list

\* delays.shift() called twice for one retry: two entries are gone
ShiftedMutTwice(list) == IF Len(list) <= 2 THEN <<>> ELSE Tail(Tail(list))

Shifted(list) == IF list = <<>> THEN <<>> ELSE Tail(list)

\* Lines 52-62: isRetryable has settled.  Its exception and a false verdict
\* end the run; a true verdict takes the next delay and calls onRetry.
Classified ==
    /\ pc = "classify"
    /\ \E v \in PredicateOutcomes(mergedOptions.isRetryable, race.error) :
          /\ predLog' = Append(predLog, [error |-> race.error, outcome |-> v])
          /\ IF v = "throw"
                THEN /\ Throw(PredicateFault)
                     /\ UNCHANGED <<delays, currentDelayMs, retryLog>>
             ELSE IF ~ShouldRetry(v)
                THEN /\ Throw(race.error)
                     /\ UNCHANGED <<delays, currentDelayMs, retryLog>>
             ELSE /\ currentDelayMs' = Shift(delays)
                  /\ delays' = Shifted(delays)
                  /\ IF mergedOptions.onRetry = "undefined"
                        THEN /\ Throw(NotAFunction)
                             /\ UNCHANGED retryLog
                        ELSE /\ retryLog' = Append(retryLog,
                                    [attempt |-> attempt, delay |-> Shift(delays),
                                     error |-> race.error, outcome |-> "pending"])
                             /\ pc' = "onRetry"
                             /\ UNCHANGED result
    /\ UNCHANGED <<setup, abortedAt, mergedOptions, attempt, abortPromise, signal, race,
                   opCalls, opPending, opLog, waits, raced>>

\* How a call of onRetry can end.
ObserverOutcomes(onRetry) ==
    IF onRetry = "noop" THEN {"return"} ELSE {"return", "throw"}

\* line 58: await onRetry(...) throws what onRetry threw or rejected with
ObserverThrewMutSwallowed(v) == FALSE

ObserverThrew(v) == v = "throw"

\* Lines 58-64: onRetry has settled.  Its exception ends the run; otherwise
\* the timer is started and raced against abortPromise.
Observed ==
    /\ pc = "onRetry"
    /\ \E v \in ObserverOutcomes(mergedOptions.onRetry) :
          /\ retryLog' = [retryLog EXCEPT ![Len(retryLog)].outcome = v]
          /\ IF ObserverThrew(v)
             THEN /\ Throw(ObserverFault)
                  /\ UNCHANGED <<waits, race, raced>>
             ELSE /\ waits' = Append(waits, currentDelayMs)
                  /\ raced' = TRUE
                  /\ IF abortPromise = "rejected"
                        THEN /\ race' = Rejected(BackoffAborted)
                             /\ pc' = "waitSettled"
                        ELSE /\ race' = Pending
                             /\ pc' = "waiting"
                  /\ UNCHANGED result
    /\ UNCHANGED <<setup, abortedAt, mergedOptions, delays, attempt, abortPromise, signal,
                   currentDelayMs, opCalls, opPending, opLog, predLog>>

\* The timer of wait(currentDelayMs) fires and wins the race.
TimerFires ==
    /\ pc = "waiting"
    /\ race' = Fulfilled(0)
    /\ pc' = "waitSettled"
    /\ UNCHANGED <<setup, abortedAt, mergedOptions, delays, attempt, abortPromise, signal,
                   currentDelayMs, result, opCalls, opPending, opLog, envLogs, raced>>

\* line 64: the race of the wait against abortPromise was lost to the abort
WaitAbortedMutNotRaced(settled) == FALSE

WaitAborted(settled) == settled.state = "rejected"

\* Lines 64-66 and the loop top: the race of the wait has settled.  The
\* AbortError leaves withBackoff; otherwise the counter is incremented and
\* the loop condition decides.
AfterWait ==
    /\ pc = "waitSettled"
    /\ IF WaitAborted(race)
          THEN /\ Throw(race.error)
               /\ UNCHANGED <<attempt, opCalls, opPending, race, opLog, raced>>
          ELSE LoopTop(attempt + 1, mergedOptions)
    /\ UNCHANGED <<setup, abortedAt, mergedOptions, delays, abortPromise, signal,
                   currentDelayMs, envLogs>>

Next ==
    \/ Call
    \/ Abort
    \/ OpSettles
    \/ OpSettlesLate
    \/ AfterAttempt
    \/ Classified
    \/ Observed
    \/ TimerFires
    \/ AfterWait

Spec == Init /\ [][Next]_vars

\* The steps a withBackoff invocation takes by itself, once what it awaited
\* has settled.
ExecutorStep ==
    \/ AfterAttempt
    \/ AfterWait

\* An invocation keeps running, and every predicate evaluation, onRetry call
\* and delay wait completes.  Nothing is assumed of the caller (it may never
\* call), of the operation (it may never settle) nor of the controller (it
\* may never abort).
FairSpec ==
    /\ Spec
    /\ WF_vars(ExecutorStep)
    /\ WF_vars(Classified)
    /\ WF_vars(Observed)
    /\ WF_vars(TimerFires)

\* ------------------------------------ the exported pure functions, called
\* ------------------------------------ directly

\* The options createDelayList is called with: every key present, delayMs >= 0,
\* delayFactor >= 0 and jitter in [0, 1] (j/JDen).
DelayListOptions ==
    [maxAttempts : 0..MaxN, delayMs : {0, 10}, delayFactor : {0, 2, 4},
     jitter : 0..JDen, strategy : {"exponential", "linear"}]

\* The draws of Math.random() during one call that returns n entries.
Draws(n) == [1..n -> 0..(UDen - 1)]

\* The values of err.code and err.cause.code: absent, each of the codes of the
\* set, a code outside it, the empty string.
ProbeCodes ==
    {None} \cup {Some(c) : c \in NETWORK_ERROR_CODES \cup {"EOTHER", ""}}

\* The values of err.statusCode, err.response.statusCode, err.response.status.
ProbeStatuses == {None, Some(0), Some(404), Some(500), Some(503)}

\* The values of err.message: the phrases themselves, a phrase inside a
\* longer word, before a punctuation mark and inside a sentence, a phrase in
\* another case, a phrase cut short, the empty string, and messages that
\* hold no phrase.
ProbeMessages ==
    {RETRYABLE_ERROR_MESSAGES[k] : k \in 1..Len(RETRYABLE_ERROR_MESSAGES)}
    \cup
    { <<"X">> \o MsgEconnrefused,
      MsgEconnrefused \o <<":">>,
      MsgConnectRefused,
      MsgSocketHangUp \o <<"X">>,
      <<"e", "c", "o", "n", "n", "r", "e", "f", "u", "s", "e", "d">>,
      <<"s", "o", "c", "k", "e", "t", " ", "h", "a", "n", "g">>,
      <<>>,
      MsgAttemptFailed,
      MsgReadEconnreset }

\* The errors the predicates are called with: every combination of own code
\* and cause (no cause, a cause without a code, a cause with a code), and
\* every combination of own statusCode and response (none, or one with
\* statusCode and status), and every message.
ProbeErrors ==
    { [MkError("Error", "caller", 0, MsgAttemptFailed, cause)
          EXCEPT !.code = code] :
        code \in ProbeCodes,
        cause \in {NoCause} \cup {CauseObj(c) : c \in ProbeCodes} }
    \cup
    { [MkError("Error", "caller", 0, MsgSocketHangUp, NoCause)
          EXCEPT !.statusCode = sc, !.response = response] :
        sc \in ProbeStatuses,
        response \in {NoResponse}
                      \cup {Response(a, b) : a \in ProbeStatuses, b \in ProbeStatuses} }
    \cup
    { MkError("Error", "caller", 0, m, NoCause) : m \in ProbeMessages }

\* Other draws than U for a second call: each u/UDen becomes (UDen-1-u)/UDen.
Mirrored(U) == [i \in 1..Len(U) |-> UDen - 1 - U[i]]

\* A direct call of createDelayList(options), made twice with the same
\* options: with the draws U, then with the draws V.
DelayListProbe(o, u, v) ==
    [fn |-> "createDelayList", options |-> o, U |-> u, V |-> v,
     err |-> NoError, returned |-> None]

\* A direct call of the three predicates on the error e.
PredicateProbe(e) ==
    [fn |-> "predicates", options |-> <<>>, U |-> <<>>, V |-> <<>>,
     err |-> e, returned |-> None]

InitPure ==
    /\ \/ \E o \in DelayListOptions :
             \E u \in Draws(o.maxAttempts) :
                \E v \in {u, Mirrored(u)} : probe = DelayListProbe(o, u, v)
       \/ \E e \in ProbeErrors : probe = PredicateProbe(e)
    /\ call = [fn |-> "withBackoff", options |-> NoOptions, onRetry |-> None]
    /\ schedule = <<>>
    /\ pc = "start"
    /\ mergedOptions = DEFAULT_OPTIONS
    /\ delays = <<>>
    /\ attempt = 1
    /\ abortPromise = "none"
    /\ raced = FALSE
    /\ signal = [aborted |-> FALSE, reason |-> "none"]
    /\ race = Pending
    /\ currentDelayMs = None
    /\ result = Pending
    /\ opCalls = 0
    /\ opPending = FALSE
    /\ opLog = <<>>
    /\ predLog = <<>>
    /\ retryLog = <<>>
    /\ waits = <<>>
    /\ abortedAt = "never"

executor ==
    <<call, pc, mergedOptions, delays, attempt, abortPromise, raced, signal,
      race, currentDelayMs, result, opCalls, opPending, opLog, predLog,
      retryLog, waits, abortedAt, schedule>>

\* createDelayList(options) is called twice and returns.
CallCreateDelayList ==
    /\ probe.fn = "createDelayList"
    /\ probe.returned = None
    /\ probe' = [probe EXCEPT !.returned =
                    Some(<<createDelayList(probe.options, probe.U),
                           createDelayList(probe.options, probe.V)>>)]
    /\ UNCHANGED executor

\* The three predicates are called on the error and return.
CallPredicates ==
    /\ probe.fn = "predicates"
    /\ probe.returned = None
    /\ probe' = [probe EXCEPT !.returned =
                    Some([isNetworkError |-> isNetworkError(probe.err),
                          isInternalServerError |-> isInternalServerError(probe.err),
                          isConnectionErrorMessage |->
                              isConnectionErrorMessage(probe.err)])]
    /\ UNCHANGED executor

NextPure ==
    \/ CallCreateDelayList
    \/ CallPredicates

SpecPure == InitPure /\ [][NextPure]_vars

\* ----------------------------------------------------------------- claims

Done == pc = "done"

Last(seq) == seq[Len(seq)]

\* Every invocation of the operation that has settled has failed.
AllOpsFailed == \A i \in 1..Len(opLog) : opLog[i].state = "rejected"

\* Every call of the predicate has returned true.
PredicateAlwaysTrue == \A i \in 1..Len(predLog) : predLog[i].outcome = "true"

\* onRetry is a function (the caller's, or the default) and has not thrown.
ObserverReturns ==
    /\ mergedOptions.onRetry /= "undefined"
    /\ ~(result.state = "rejected" /\ result.error = ObserverFault)

\* The attempt numbers onRetry was called with are 1, 2, ..., in order.
RetryAttemptsInOrder == \A i \in 1..Len(retryLog) : retryLog[i].attempt = i

\* The run is over, the signal was never aborted, every invocation has failed
\* and the predicate has returned true whenever it was asked.
AlwaysFailingRun ==
    /\ Done
    /\ call.fn = "withBackoff"
    /\ mergedOptions.maxAttempts >= 1
    /\ abortedAt = "never"
    /\ AllOpsFailed
    /\ PredicateAlwaysTrue
    /\ mergedOptions.isRetryable = "user"
    /\ ObserverReturns

\* C1 (as claimed): for maxAttempts = n >= 1, no cancellation, an operation
\* that fails on every invocation and a predicate that always returns true,
\* the operation is invoked exactly n times, onRetry exactly n-1 times with
\* attempts 1..n-1 in order, and withBackoff rejects with the error of the
\* n-th invocation.
C1_AlwaysFailingExhaustsBudget ==
    AlwaysFailingRun =>
        /\ opCalls = mergedOptions.maxAttempts
        /\ Len(retryLog) = mergedOptions.maxAttempts - 1
        /\ RetryAttemptsInOrder
        /\ result = Rejected(opLog[mergedOptions.maxAttempts].error)
        /\ result.error.inv = mergedOptions.maxAttempts

\* The operation of C1 that breaks it: its first error is an instance of
\* AbortError, and a budget of more than one attempt is cut to one.
C1_AbortErrorFromOperation ==
    /\ AlwaysFailingRun
    /\ mergedOptions.maxAttempts = MaxN
    /\ opCalls = 1
    /\ predLog = <<>>
    /\ IsAbortError(opLog[1].error)
    /\ result = Rejected(opLog[1].error)

\* C1 for operations whose errors are no instances of AbortError: the
\* statement holds as claimed.
C1_HoldsForOtherErrors ==
    (AlwaysFailingRun /\ \A i \in 1..Len(opLog) : ~IsAbortError(opLog[i].error))
        => /\ opCalls = mergedOptions.maxAttempts
           /\ Len(retryLog) = mergedOptions.maxAttempts - 1
           /\ RetryAttemptsInOrder
           /\ result = Rejected(opLog[mergedOptions.maxAttempts].error)
           /\ result.error.inv = mergedOptions.maxAttempts

\* The schedule entries taken so far (createDelayList makes maxAttempts).
Consumed == mergedOptions.maxAttempts - Len(delays)

\* C2: with no cancellation and a predicate that always returns true, when
\* the operation fails on invocations 1..k-1 and succeeds on invocation k
\* (k <= maxAttempts), withBackoff resolves with that value, onRetry has been
\* called k-1 times, k-1 schedule entries are consumed and there is no
\* invocation k+1.
C2_SucceedsOnAttemptK ==
    (/\ Done
     /\ abortedAt = "never"
     /\ PredicateAlwaysTrue
     /\ opLog /= <<>>
     /\ Last(opLog).state = "fulfilled"
     /\ \A i \in 1..(Len(opLog) - 1) : opLog[i].state = "rejected")
        => LET k == Len(opLog)
           IN  /\ k <= mergedOptions.maxAttempts
               /\ result = Fulfilled(opLog[k].value)
               /\ result.value = k
               /\ Len(retryLog) = k - 1
               /\ Consumed = k - 1
               /\ opCalls = k
               /\ ~opPending

C2_Witness ==
    /\ Done
    /\ abortedAt = "never"
    /\ mergedOptions.maxAttempts = MaxN
    /\ Len(opLog) = MaxN
    /\ \A i \in 1..(MaxN - 1) : opLog[i].state = "rejected"
    /\ result = Fulfilled(MaxN)
    /\ Len(retryLog) = MaxN - 1

\* C3: when the predicate returns false for the error of an attempt,
\* withBackoff rejects with that error, and for that failure onRetry is not
\* called, no schedule entry is consumed, no delay is waited and the
\* operation is not invoked again.
C3_NonRetryableIsTerminal ==
    (predLog /= <<>> /\ Last(predLog).outcome = "false")
        => LET k == Len(predLog)
           IN  /\ Done
               /\ result = Rejected(Last(predLog).error)
               /\ result.error = opLog[k].error
               /\ result.error.inv = k
               /\ Len(retryLog) = k - 1
               /\ Consumed = k - 1
               /\ Len(waits) = k - 1
               /\ opCalls = k
               /\ ~opPending

C3_Witness ==
    /\ mergedOptions.maxAttempts = MaxN
    /\ Len(predLog) = MaxN - 1
    /\ Last(predLog).outcome = "false"
    /\ predLog[1].outcome = "true"
    /\ Done
    /\ opCalls = MaxN - 1

\* The AbortError withBackoff makes of the signal's reason.
IsBackoffAborted(error) ==
    /\ error.cls = "AbortError"
    /\ error.message = BackoffAbortedMsg
    /\ error.cause = CauseReason(signal.reason)
    /\ signal.reason \in Reasons

\* C4: a signal that is already aborted when withBackoff is called makes it
\* reject with an AbortError whose cause is the signal's reason; operation,
\* predicate and onRetry are never invoked.
C4_AbortedBeforeCall ==
    (abortedAt = "start" /\ pc /= "start")
        => /\ Done
           /\ result.state = "rejected"
           /\ IsBackoffAborted(result.error)
           /\ opCalls = 0
           /\ predLog = <<>>
           /\ retryLog = <<>>
           /\ waits = <<>>

C4_Witness ==
    /\ abortedAt = "start"
    /\ Done
    /\ mergedOptions.maxAttempts = MaxN
    /\ result.error.cause = CauseReason("customReason")

\* C5: an abort while an invocation of the operation is outstanding makes
\* withBackoff reject with AbortError "Backoff aborted" whose cause is the
\* reason given to abort; it does not wait for the operation, never reports
\* what the operation settles with later, and starts no further attempt.
C5_AbortedDuringAttempt ==
    (abortedAt = "attempt")
        => /\ pc \in {"attemptSettled", "done"}
           /\ IsBackoffAborted(race.error)
           /\ opCalls = attempt
           /\ Len(opLog) = opCalls - (IF opPending THEN 1 ELSE 0)
           /\ Len(predLog) = attempt - 1
           /\ Done => /\ result.state = "rejected"
                      /\ IsBackoffAborted(result.error)

\* The rejection is delivered while the operation is still outstanding, and
\* stands after the operation has settled with a value.
C5_Witness ==
    /\ abortedAt = "attempt"
    /\ Done
    /\ attempt = 2
    /\ IsBackoffAborted(result.error)
    /\ ~opPending
    /\ Len(opLog) = 2
    /\ opLog[2].state = "fulfilled"

C5_WitnessNotWaiting ==
    /\ abortedAt = "attempt"
    /\ Done
    /\ opPending
    /\ IsBackoffAborted(result.error)

\* C6: an abort during the wait of a retry delay makes withBackoff reject
\* with an AbortError whose cause is the abort reason, without the rest of
\* the delay, without incrementing the attempt counter and without another
\* invocation of the operation.
C6_AbortedDuringWait ==
    (abortedAt = "waiting")
        => /\ pc \in {"waitSettled", "done"}
           /\ IsBackoffAborted(race.error)
           /\ attempt = Len(retryLog)
           /\ Len(waits) = attempt
           /\ opCalls = attempt
           /\ ~opPending
           /\ Done => /\ result.state = "rejected"
                      /\ IsBackoffAborted(result.error)

C6_Witness ==
    /\ abortedAt = "waiting"
    /\ Done
    /\ attempt = 2
    /\ mergedOptions.maxAttempts = MaxN
    /\ signal.reason = "abortError"
    /\ IsBackoffAborted(result.error)

\* C7: once the signal is aborted, no step starts an invocation of the
\* operation, wherever the abort fell.
C7_NoAttemptAfterAbort ==
    [][(HasSignal /\ signal.aborted) => opCalls' = opCalls]_vars

\* The abort fell between the end of a wait and the loop condition, with
\* budget left; the run ended there.
C7_Witness ==
    /\ abortedAt = "waitSettled"
    /\ Done
    /\ attempt = 2
    /\ opCalls = 1
    /\ mergedOptions.maxAttempts = MaxN
    /\ IsBackoffAborted(result.error)

\* The operation failed on invocation i and the executor saw it (the race
\* was not lost to an abort).
FailureSeen(i) ==
    /\ Len(opLog) >= i
    /\ opLog[i].state = "rejected"
    /\ ~(abortedAt = "attempt" /\ attempt = i)

\* C8: the predicate is never asked about the failure of attempt number
\* maxAttempts; with maxAttempts = 1 the first failure is terminal:
\* withBackoff rejects with it after one invocation, and neither the
\* predicate nor onRetry is invoked.
C8_LastAttemptNotClassified ==
    /\ \A i \in 1..Len(predLog) : predLog[i].error.inv < mergedOptions.maxAttempts
    /\ (pc /= "start" /\ mergedOptions.maxAttempts = 1)
          => /\ predLog = <<>>
             /\ retryLog = <<>>
             /\ opCalls <= 1
             /\ (Done /\ FailureSeen(1)) => /\ result = Rejected(opLog[1].error)
                                            /\ opCalls = 1

C8_Witness ==
    /\ mergedOptions.maxAttempts = 1
    /\ mergedOptions.isRetryable = "user"
    /\ Done
    /\ FailureSeen(1)
    /\ ~IsAbortError(opLog[1].error)
    /\ result = Rejected(opLog[1].error)

\* C9: an option the caller omits takes its default; withBackoff called
\* with no options invokes a failing operation once and rejects with its
\* error, and resolves with the value of an operation that succeeds.
C9_Defaults ==
    (pc /= "start")
        => /\ PassedOptions.maxAttempts = None => mergedOptions.maxAttempts = 6
           /\ PassedOptions.delayMs = None => mergedOptions.delayMs = 20
           /\ PassedOptions.delayFactor = None => mergedOptions.delayFactor = 4
           /\ PassedOptions.jitter = None => mergedOptions.jitter = 0
           /\ PassedOptions.strategy = None => mergedOptions.strategy = "exponential"
           /\ PassedOptions.onRetry = None => mergedOptions.onRetry = "noop"
           /\ PassedOptions.isRetryable = None
                 => mergedOptions.isRetryable = "alwaysFalse"
           /\ PassedOptions.signal = None => mergedOptions.signal = "null"
           /\ (Done /\ PassedOptions = NoOptions)
                 => /\ opCalls = 1
                    /\ Len(opLog) = 1
                    /\ retryLog = <<>>
                    /\ waits = <<>>
                    /\ result = opLog[1]

C9_Witness ==
    /\ Done
    /\ call.fn = "withBackoff"
    /\ PassedOptions = NoOptions
    /\ opLog[1].state = "rejected"
    /\ ~IsAbortError(opLog[1].error)
    /\ Len(predLog) = 1
    /\ result = Rejected(opLog[1].error)

C9_WitnessSuccess ==
    /\ Done
    /\ PassedOptions = NoOptions
    /\ result = Fulfilled(1)

\* The error matches the predicate the wrapper binds.
MatchesBound(fn, error) ==
    CASE fn = "withNetworkBackoff" -> isNetworkError(error)
      [] fn = "withInternalServerErrorBackoff" -> isInternalServerError(error)
      [] fn = "withConnectionErrorMessageBackoff" -> isConnectionErrorMessage(error)

\* C10 (as claimed): a wrapper, with or without its onRetry argument, given
\* an operation that always fails with an error its predicate matches,
\* invokes it 6 times and rejects with its last error.
C10_WrapperRetriesToBudget ==
    (/\ Done
     /\ call.fn /= "withBackoff"
     /\ ~(result.state = "rejected" /\ result.error = ObserverFault)
     /\ \A i \in 1..Len(opLog) :
           /\ opLog[i].state = "rejected"
           /\ MatchesBound(call.fn, opLog[i].error))
        => /\ opCalls = 6
           /\ result = Rejected(opLog[6].error)

\* The wrapper called without onRetry: the first retry calls undefined.
C10_ObserverUndefined ==
    /\ Done
    /\ call.fn = "withNetworkBackoff"
    /\ call.onRetry = None
    /\ opCalls = 1
    /\ isNetworkError(opLog[1].error)
    /\ predLog = <<[error |-> opLog[1].error, outcome |-> "true"]>>
    /\ result = Rejected(NotAFunction)

\* C10 for a wrapper that is given an onRetry: the statement holds.
C10_HoldsWithObserver ==
    (/\ Done
     /\ call.fn /= "withBackoff"
     /\ call.onRetry /= None
     /\ ~(result.state = "rejected" /\ result.error = ObserverFault)
     /\ \A i \in 1..Len(opLog) :
           /\ opLog[i].state = "rejected"
           /\ MatchesBound(call.fn, opLog[i].error))
        => /\ opCalls = 6
           /\ result = Rejected(opLog[6].error)

\* The delay of schedule index k-1 (the k-th retry) before jitter, in
\* milliseconds: delayMs * delayFactor^(k-1), or delayMs.
BaseDelay(options, k) ==
    IF options.strategy = "exponential"
       THEN options.delayMs * Pow(options.delayFactor, k - 1)
       ELSE options.delayMs

\* The call has been made with jitter 0 and without relativeTo.
JitterFreeCall ==
    /\ pc /= "start"
    /\ mergedOptions.jitter = 0
    /\ mergedOptions.relativeTo = None

\* C11: with jitter 0 and no reference instant, the k-th call of onRetry
\* (attempt k, 1 <= k <= maxAttempts - 1) reports the delay
\* delayMs * delayFactor^(k-1) under the exponential strategy and delayMs
\* under the linear one, and the list createDelayList returned holds that
\* value at every index k-1.
C11_ReportedDelays ==
    JitterFreeCall =>
        /\ \A k \in 1..Len(retryLog) :
              /\ retryLog[k].attempt = k
              /\ k <= mergedOptions.maxAttempts - 1
              /\ retryLog[k].delay = Some(Scale * BaseDelay(mergedOptions, k))
        /\ \A i \in 1..Len(schedule) :
              schedule[i] = Scale * BaseDelay(mergedOptions, i)

\* delayMs 10, delayFactor 2: the first three retries report 10, 20, 40.
C11_Witness ==
    /\ JitterFreeCall
    /\ mergedOptions.strategy = "exponential"
    /\ mergedOptions.delayMs = 10
    /\ mergedOptions.delayFactor = 2
    /\ Len(retryLog) >= 3
    /\ retryLog[1].delay = Some(10 * Scale)
    /\ retryLog[2].delay = Some(20 * Scale)
    /\ retryLog[3].delay = Some(40 * Scale)

\* Linear, delayMs 10, maxAttempts 3: the two retries report 10 and 10.
C11_WitnessLinear ==
    /\ JitterFreeCall
    /\ mergedOptions.strategy = "linear"
    /\ mergedOptions.maxAttempts = 3
    /\ Len(retryLog) = 2
    /\ retryLog[1].delay = Some(10 * Scale)
    /\ retryLog[2].delay = Some(10 * Scale)

\* The call has been made with a reference instant and jitter 0.
RelativeToCall ==
    /\ pc /= "start"
    /\ mergedOptions.relativeTo /= None
    /\ mergedOptions.jitter = 0

\* C12 (as claimed): when relativeTo is passed to withBackoff, the delay
\* reported to onRetry at each retry is relativeTo.getTime() plus the
\* relative delay of that retry.
C12_ReportedRelativeToInstant ==
    RelativeToCall =>
        \A k \in 1..Len(retryLog) :
            retryLog[k].delay =
                Some(Scale * (mergedOptions.relativeTo[1] + BaseDelay(mergedOptions, k)))

\* What withBackoff built with the createDelayList that ignores relativeTo
\* does with the test's call (linear, jitter 0, relativeTo T): the first
\* retry reports delayMs, as without relativeTo.
C12_RelativeToIgnored ==
    /\ RelativeToCall
    /\ mergedOptions.strategy = "linear"
    /\ Len(retryLog) >= 1
    /\ retryLog[1].delay = Some(Scale * mergedOptions.delayMs)
    /\ waits = <<Some(Scale * mergedOptions.delayMs)>>

\* What withBackoff built with the createDelayList that adds relativeTo does
\* with it: the first retry reports T + delayMs, and the timer is started
\* for that many milliseconds.
C12_RelativeToAdded ==
    /\ RelativeToCall
    /\ mergedOptions.strategy = "linear"
    /\ Len(retryLog) >= 1
    /\ retryLog[1].delay =
          Some(Scale * (mergedOptions.relativeTo[1] + mergedOptions.delayMs))
    /\ waits = <<Some(Scale * (mergedOptions.relativeTo[1] + mergedOptions.delayMs))>>

\* createDelayList has been called directly and has returned.
DelayListReturned == probe.fn = "createDelayList" /\ probe.returned /= None

\* C13: for delayMs >= 0 (and delayFactor >= 0), jitter in [0, 1] and any
\* draw in [0, 1) per entry, createDelayList returns a list as long as with
\* jitter 0, every entry at least the entry with jitter 0 (the base) and at
\* most base * (1 + jitter); with jitter 0 two calls with the same options
\* return the same list.
C13_JitterOnlyAdds ==
    DelayListReturned =>
        LET o == probe.options
            list == probe.returned[1][1]
            again == probe.returned[1][2]
            zero == createDelayList([o EXCEPT !.jitter = 0], probe.U)
        IN  /\ Len(list) = Len(zero)
            /\ Len(again) = Len(zero)
            /\ Len(zero) = o.maxAttempts
            /\ \A i \in 1..Len(list) :
                  /\ zero[i] = Scale * BaseDelay(o, i)
                  /\ list[i] >= zero[i]
                  /\ again[i] >= zero[i]
                  /\ JDen * list[i] <= zero[i] * (JDen + o.jitter)
                  /\ JDen * again[i] <= zero[i] * (JDen + o.jitter)
            /\ o.jitter = 0 => list = again

\* A call with jitter 1 and MaxN entries, the last one above its base.
C13_Witness ==
    /\ DelayListReturned
    /\ probe.options.jitter = JDen
    /\ probe.options.maxAttempts = MaxN
    /\ probe.returned[1][1][MaxN] > Scale * BaseDelay(probe.options, MaxN)

\* Two calls with jitter 0 whose draws differ.
C13_WitnessJitterFree ==
    /\ DelayListReturned
    /\ probe.options.jitter = 0
    /\ probe.options.delayMs > 0
    /\ probe.options.maxAttempts = MaxN
    /\ probe.U /= probe.V
    /\ probe.returned[1][1] = probe.returned[1][2]

\* The index of the last call of the predicate, and of onRetry.
LastClassified == Len(predLog)

LastObserved == Len(retryLog)

\* C14: when the predicate throws while classifying a failure, withBackoff
\* rejects with exactly the value thrown, onRetry is not called for that
\* failure and no schedule entry is consumed for it; when onRetry throws,
\* withBackoff rejects with exactly the value thrown; in both cases the
\* operation is not invoked again and no later delay is waited.
C14_FaultsPropagate ==
    /\ (predLog /= <<>> /\ Last(predLog).outcome = "throw") =>
          /\ Done
          /\ result = Rejected(PredicateFault)
          /\ opCalls = LastClassified
          /\ Len(retryLog) = LastClassified - 1
          /\ Consumed = LastClassified - 1
          /\ Len(waits) = LastClassified - 1
    /\ (retryLog /= <<>> /\ Last(retryLog).outcome = "throw") =>
          /\ Done
          /\ result = Rejected(ObserverFault)
          /\ opCalls = LastObserved
          /\ Len(predLog) = LastObserved
          /\ Len(waits) = LastObserved - 1

\* The predicate throws on the second failure, after one retry.
C14_Witness ==
    /\ Done
    /\ Len(predLog) = 2
    /\ Last(predLog).outcome = "throw"
    /\ result = Rejected(PredicateFault)
    /\ Len(retryLog) = 1
    /\ Len(waits) = 1

\* onRetry throws at the second retry.
C14_WitnessObserver ==
    /\ Done
    /\ Len(retryLog) = 2
    /\ Last(retryLog).outcome = "throw"
    /\ result = Rejected(ObserverFault)
    /\ opCalls = 2
    /\ Len(waits) = 1

\* C15: for every retry k the events come in this order: attempt k fails, the
\* predicate is evaluated on its error (and returns true), onRetry is called
\* once with {attempt: k, delay: the next schedule entry, error: that error}
\* and awaited, then that same delay is waited, then attempt k+1 starts.  The
\* attempt numbers onRetry is called with are 1, 2, 3, ...
C15_RetryOrder ==
    /\ \A k \in 1..Len(retryLog) :
          /\ retryLog[k].attempt = k
          /\ opLog[k] = Rejected(retryLog[k].error)
          /\ predLog[k] = [error |-> retryLog[k].error, outcome |-> "true"]
          /\ retryLog[k].delay = Some(schedule[k])
          /\ k <= Len(waits) => waits[k] = retryLog[k].delay
          /\ k < Len(retryLog) =>
                /\ retryLog[k].outcome = "return"
                /\ k <= Len(waits)
          /\ retryLog[k].outcome = "pending" =>
                /\ k = Len(retryLog)
                /\ pc = "onRetry"
    /\ pc \in {"attempt", "attemptSettled", "classify"} =>
          /\ opCalls = attempt
          /\ Len(retryLog) = attempt - 1
          /\ Len(waits) = attempt - 1
          /\ Len(predLog) = attempt - 1
    /\ pc = "onRetry" =>
          /\ opCalls = attempt
          /\ Len(opLog) = attempt
          /\ Len(predLog) = attempt
          /\ Len(retryLog) = attempt
          /\ Len(waits) = attempt - 1
    /\ pc \in {"waiting", "waitSettled"} =>
          /\ opCalls = attempt
          /\ Len(retryLog) = attempt
          /\ Len(waits) = attempt
          /\ Last(retryLog).outcome = "return"

\* Two retries with a jittered schedule are over and attempt 3 has started.
C15_Witness ==
    /\ pc = "attempt"
    /\ opCalls = 3
    /\ mergedOptions.jitter > 0
    /\ Len(retryLog) = 2
    /\ retryLog[1].delay /= retryLog[2].delay
    /\ waits = <<retryLog[1].delay, retryLog[2].delay>>

\* The invocations of the operation that have started and have not settled.
Outstanding == opCalls - Len(opLog)

\* C16: at most one invocation of the operation is started and not yet
\* settled; invocation k+1 is started only after invocation k has rejected,
\* and none is outstanding or started while the predicate, onRetry or a
\* delay wait is in progress.
C16_OneInvocationAtATime ==
    /\ Outstanding \in {0, 1}
    /\ opPending = (Outstanding = 1)
    /\ \A k \in 2..opCalls :
          /\ k - 1 <= Len(opLog)
          /\ opLog[k - 1].state = "rejected"
    /\ pc \in {"classify", "onRetry", "waiting", "waitSettled"} =>
          /\ Outstanding = 0
          /\ opCalls = attempt

\* Invocation MaxN is outstanding, every earlier one has rejected.
C16_Witness ==
    /\ pc = "attempt"
    /\ opCalls = MaxN
    /\ Outstanding = 1
    /\ Len(opLog) = MaxN - 1

\* The run was aborted and is over while invocation 2 is still outstanding.
C16_WitnessAbandoned ==
    /\ Done
    /\ opCalls = 2
    /\ Outstanding = 1
    /\ IsBackoffAborted(result.error)

\* C17 (as claimed): withBackoff rejects with an AbortError only if its own
\* signal has been aborted; and every error the operation throws on an
\* attempt below maxAttempts, of whatever class, is given to the predicate
\* and, when the predicate returns true, retried.
C17_AbortErrorOnlyFromOwnSignal ==
    /\ (Done /\ result.state = "rejected" /\ result.error.cls = "AbortError")
          => (HasSignal /\ signal.aborted)
    /\ Done =>
          \A i \in 1..Len(opLog) :
              (FailureSeen(i) /\ i < mergedOptions.maxAttempts) =>
                  /\ Len(predLog) >= i
                  /\ predLog[i].error = opLog[i].error
                  /\ (predLog[i].outcome = "true" /\ ObserverReturns
                      /\ abortedAt = "never") => opCalls > i

\* A call without a signal whose operation throws an AbortError (as a nested
\* withBackoff does when its own signal is aborted): withBackoff rejects with
\* it after one invocation and the predicate is never asked.
C17_OperationAbortErrorNotClassified ==
    /\ Done
    /\ ~HasSignal
    /\ mergedOptions.maxAttempts > 1
    /\ mergedOptions.isRetryable = "user"
    /\ opCalls = 1
    /\ opLog[1].state = "rejected"
    /\ opLog[1].error.cls = "AbortError"
    /\ opLog[1].error.origin = "op"
    /\ predLog = <<>>
    /\ result = Rejected(opLog[1].error)

\* C17 for operations that throw no instance of AbortError: the statement
\* holds.
C17_HoldsForOtherErrors ==
    (\A i \in 1..Len(opLog) :
        opLog[i].state = "rejected" => opLog[i].error.cls /= "AbortError")
    => C17_AbortErrorOnlyFromOwnSignal

\* The fault carries the error e: an AbortError has a message, a name and a
\* cause, and the cause is the one place that can hold an error.
CarriesError(fault, e) == fault.cause.kind = "error" /\ fault.cause.value = e

\* The fault carries the reason the signal was aborted with.
CarriesReason(fault) ==
    fault.cause.kind = "reason" /\ fault.cause.value = signal.reason

\* The abort fell into the wait after a failed attempt and the run is over.
AbortedInWait ==
    /\ abortedAt = "waiting"
    /\ Done
    /\ retryLog /= <<>>

\* C18 (as claimed): when the abort falls into the delay wait after a failed
\* attempt, the AbortError carries both the abort reason and the operation
\* error that was in flight.
C18_CarriesReasonAndError ==
    AbortedInWait =>
        /\ result.state = "rejected"
        /\ result.error.cls = "AbortError"
        /\ CarriesReason(result.error)
        /\ CarriesError(result.error, Last(retryLog).error)

\* C18 (amended): when the abort falls into the delay wait after a failed
\* attempt, the AbortError has the message "Backoff aborted" and the abort
\* reason as its cause, and nothing else: the error of the failed attempt is
\* not carried.
C18_CarriesReasonOnly ==
    AbortedInWait =>
        /\ result.state = "rejected"
        /\ result.error.cls = "AbortError"
        /\ result.error.message = BackoffAbortedMsg
        /\ CarriesReason(result.error)
        /\ ~CarriesError(result.error, Last(retryLog).error)
        /\ result.error.cause.code = None
        /\ result.error.inv = 0
        /\ result.error.code = None
        /\ result.error.statusCode = None
        /\ result.error.response = NoResponse

\* The second wait is aborted with a value that is no Error.
C18_Witness ==
    /\ AbortedInWait
    /\ Len(retryLog) = 2
    /\ Last(retryLog).error.inv = 2
    /\ signal.reason = "customReason"
    /\ result.error.cause.value = "customReason"

\* The predicates have been called directly and have returned.
PredicatesReturned == probe.fn = "predicates" /\ probe.returned /= None

\* An optional code that is one of the 12 codes.
InCodes(code) == code /= None /\ code[1] \in NETWORK_ERROR_CODES

\* C19 (as claimed): isNetworkError(err) is true exactly when err.code or
\* err.cause.code is one of the 12 codes, for every combination of the two
\* (each absent, in the set, outside the set).
C19_OwnOrCauseCodeInSet ==
    PredicatesReturned =>
        probe.returned[1].isNetworkError
            = (InCodes(probe.err.code) \/ InCodes(CauseCode(probe.err)))

\* An error with code ECONNRESET whose cause has a code outside the set: the
\* cause's code is the one looked up, and the answer is false.
C19_CauseCodeShadowsOwnCode ==
    /\ PredicatesReturned
    /\ probe.err.code = Some("ECONNRESET")
    /\ probe.err.cause = CauseObj(Some("EOTHER"))
    /\ probe.returned[1].isNetworkError = FALSE

\* C19 for errors whose cause has no code, or whose own code is absent or
\* outside the set: the statement holds; so do the two examples (a cause
\* with code ECONNRESET gives true, a status of 503 and no code gives false).
C19_HoldsUnlessShadowed ==
    (/\ PredicatesReturned
     /\ \/ CauseCode(probe.err) = None
        \/ ~InCodes(probe.err.code))
    => /\ probe.returned[1].isNetworkError
            = (InCodes(probe.err.code) \/ InCodes(CauseCode(probe.err)))
       /\ (CauseCode(probe.err) = Some("ECONNRESET"))
            => probe.returned[1].isNetworkError
       /\ (probe.err.code = None /\ probe.err.cause = NoCause)
            => ~probe.returned[1].isNetworkError

\* An optional status that is 500 or more.
AtLeast500(status) == status /= None /\ status[1] >= 500

\* C20 (as claimed): isInternalServerError(err) is true exactly when the
\* error's status (err.statusCode, or err.response.status or
\* err.response.statusCode) is >= 500, for every combination of the three
\* fields (each absent, below 500, or >= 500).
C20_AnyStatusAtLeast500 ==
    PredicatesReturned =>
        probe.returned[1].isInternalServerError
            = \/ AtLeast500(probe.err.statusCode)
              \/ AtLeast500(probe.err.response.status)
              \/ AtLeast500(probe.err.response.statusCode)

\* An error with statusCode 404 whose response has status 503: the first
\* truthy field is the one compared, and the answer is false.
C20_OwnStatusShadowsResponse ==
    /\ PredicatesReturned
    /\ probe.err.statusCode = Some(404)
    /\ probe.err.response = Response(None, Some(503))
    /\ probe.returned[1].isInternalServerError = FALSE

\* The field the claim's list of fields names first among those present:
\* err.statusCode, then err.response.status, then err.response.statusCode.
FirstPresentStatus(err) ==
    Coalesce(err.statusCode, Coalesce(err.response.status, err.response.statusCode))

\* C20 read as "the first of the three fields that is present is >= 500":
\* violated too (the code takes err.response.statusCode before
\* err.response.status, and skips a status of 0).
C20_FirstPresentAtLeast500 ==
    PredicatesReturned =>
        probe.returned[1].isInternalServerError
            = AtLeast500(FirstPresentStatus(probe.err))

\* C20 for errors with at most one of the three fields present: the
\* statement holds; so do the two examples (a response with status 503 gives
\* true, one with status 404 gives false).
C20_HoldsForOneField ==
    (/\ PredicatesReturned
     /\ Cardinality({f \in {"own", "statusCode", "status"} :
            CASE f = "own" -> probe.err.statusCode /= None
              [] f = "statusCode" -> probe.err.response.statusCode /= None
              [] f = "status" -> probe.err.response.status /= None}) <= 1)
    => probe.returned[1].isInternalServerError
            = \/ AtLeast500(probe.err.statusCode)
              \/ AtLeast500(probe.err.response.status)
              \/ AtLeast500(probe.err.response.statusCode)

\* The run is over with a rejection, and maxAttempts is 1 or more.
RejectedWithBudget ==
    /\ Done
    /\ result.state = "rejected"
    /\ mergedOptions.maxAttempts >= 1

\* The error is one an invocation of the operation rejected with.
IsOperationError(error) ==
    \E i \in 1..Len(opLog) : opLog[i] = Rejected(error)

\* C21 (as claimed): for maxAttempts >= 1 and every interleaving with the
\* abort, withBackoff never rejects with Error("Max attempts exceeded");
\* every rejection is the operation's own error, a value the predicate or
\* onRetry threw, or an AbortError.  With maxAttempts = 0 (and no abort
\* before the call) the operation is never invoked and the generic error is
\* the outcome.
C21_RejectionKinds ==
    /\ RejectedWithBudget =>
          /\ result.error /= MaxAttemptsExceeded
          /\ \/ IsOperationError(result.error)
             \/ result.error = PredicateFault
             \/ result.error = ObserverFault
             \/ result.error.cls = "AbortError"
    /\ (Done /\ mergedOptions.maxAttempts = 0 /\ abortedAt /= "start") =>
          /\ opCalls = 0
          /\ result = Rejected(MaxAttemptsExceeded)

\* A rejection of a fourth kind: the TypeError of calling an onRetry that is
\* undefined, thrown by withBackoff itself at the first retry.
C21_RejectedWithTypeError ==
    /\ RejectedWithBudget
    /\ result.error = NotAFunction
    /\ ~IsOperationError(result.error)
    /\ opCalls = 1
    /\ retryLog = <<>>

\* C21 with that TypeError admitted as a kind of rejection: the statement
\* holds; in particular the generic error is never the outcome for
\* maxAttempts >= 1.
C21_HoldsUpToTypeError ==
    /\ RejectedWithBudget =>
          /\ result.error /= MaxAttemptsExceeded
          /\ \/ IsOperationError(result.error)
             \/ result.error = PredicateFault
             \/ result.error = ObserverFault
             \/ result.error.cls = "AbortError"
             \/ result.error = NotAFunction /\ mergedOptions.onRetry = "undefined"
    /\ (Done /\ mergedOptions.maxAttempts = 0 /\ abortedAt /= "start") =>
          /\ opCalls = 0
          /\ result = Rejected(MaxAttemptsExceeded)

\* The calls of onRetry that have returned.
CompletedRetries ==
    Cardinality({k \in 1..Len(retryLog) : retryLog[k].outcome = "return"})

\* The schedule entries taken so far, counted against the list as it was
\* returned by createDelayList.
Taken == Len(schedule) - Len(delays)

\* C22: for maxAttempts >= 1 the schedule is computed once, before the
\* first attempt; at every start of an attempt 1 <= attempt <= maxAttempts
\* and the invocations made before it, attempt - 1, the schedule entries
\* consumed and the completed onRetry calls are equal in number; entries are
\* consumed front to back, at most maxAttempts - 1 of them, and no entry is
\* taken from an empty schedule: no reported delay is undefined.
C22_Bookkeeping ==
    (pc /= "start" /\ mergedOptions.maxAttempts >= 1) =>
        /\ Len(schedule) = mergedOptions.maxAttempts
        /\ Taken >= 0
        /\ Taken <= mergedOptions.maxAttempts - 1
        /\ delays = SubSeq(schedule, Taken + 1, Len(schedule))
        /\ \A k \in 1..Len(retryLog) :
              /\ retryLog[k].delay /= None
              /\ retryLog[k].delay = Some(schedule[k])
        /\ Taken > 0 => currentDelayMs = Some(schedule[Taken])
        /\ \A k \in 1..Len(waits) : waits[k] /= None
        /\ pc = "attempt" =>
              /\ 1 <= attempt
              /\ attempt <= mergedOptions.maxAttempts
              /\ opCalls - 1 = attempt - 1
              /\ Taken = attempt - 1
              /\ CompletedRetries = attempt - 1

\* The last attempt of a budget of MaxN starts, with a jittered schedule of
\* which the one entry never used is left.
C22_Witness ==
    /\ pc = "attempt"
    /\ mergedOptions.maxAttempts = MaxN
    /\ mergedOptions.jitter > 0
    /\ attempt = MaxN
    /\ Taken = MaxN - 1
    /\ CompletedRetries = MaxN - 1
    /\ delays = <<schedule[MaxN]>>

\* abortPromise has a handler: it has been passed to Promise.race, at line 42
\* (an invocation of the operation that returned) or at line 64 (a wait).
AbortPromiseHandled == raced

\* C23 (as claimed): whenever abortPromise is rejected (the signal was
\* aborted before the call, or at any later point, also after withBackoff
\* has settled), the executor has passed it to a race or goes on to do so:
\* once withBackoff has settled, no rejected abortPromise is left without a
\* handler.
C23_NoUnhandledRejection ==
    (Done /\ abortPromise = "rejected") => AbortPromiseHandled

\* The signal is aborted before the call: abortPromise is rejected at once,
\* the loop is not entered, and the run is over with abortPromise never
\* passed to a race.
C23_UnhandledWhenAbortedBeforeCall ==
    /\ Done
    /\ abortedAt = "start"
    /\ mergedOptions.maxAttempts >= 1
    /\ abortPromise = "rejected"
    /\ ~AbortPromiseHandled
    /\ opCalls = 0
    /\ IsBackoffAborted(result.error)

\* With maxAttempts = 0 the loop is not entered either, and an abort after
\* withBackoff has settled rejects an abortPromise that has no handler.
C23_UnhandledWhenAbortedAfterEmptyRun ==
    /\ Done
    /\ abortedAt = "done"
    /\ mergedOptions.maxAttempts = 0
    /\ abortPromise = "rejected"
    /\ ~AbortPromiseHandled
    /\ opCalls = 0
    /\ result = Rejected(MaxAttemptsExceeded)

\* An operation that throws instead of returning a promise: line 42 never
\* reaches Promise.race, withBackoff rejects with the operation's error, and
\* an abort after that rejects an abortPromise that has no handler.
C23_UnhandledWhenOperationThrew ==
    /\ Done
    /\ abortedAt = "done"
    /\ mergedOptions.maxAttempts >= 1
    /\ abortPromise = "rejected"
    /\ ~AbortPromiseHandled
    /\ opCalls = 1
    /\ result = Rejected(opLog[1].error)

\* C23 for runs that reach a race: an abortPromise that is rejected without
\* a handler belongs to a run in which no invocation of the operation
\* returned and no wait was started (the operation was invoked at most once,
\* and threw).
C23_HoldsOnceRaced ==
    (abortPromise = "rejected" /\ ~AbortPromiseHandled)
    => /\ opCalls <= 1
       /\ Len(opLog) = opCalls
       /\ ~opPending
       /\ waits = <<>>

\* The kinds of terminal outcome the claim lists: a value, an error of the
\* operation, of the predicate or of onRetry, an AbortError.
ListedOutcome ==
    \/ result.state = "fulfilled"
    \/ /\ result.state = "rejected"
       /\ \/ IsOperationError(result.error)
          \/ result.error = PredicateFault
          \/ result.error = ObserverFault
          \/ result.error.cls = "AbortError"

\* The kinds of terminal outcome there are: the listed ones, the generic
\* error of a budget of 0, and the TypeError of an onRetry that is undefined.
TerminalOutcome ==
    \/ ListedOutcome
    \/ /\ result = Rejected(MaxAttemptsExceeded)
       /\ mergedOptions.maxAttempts = 0
    \/ /\ result = Rejected(NotAFunction)
       /\ mergedOptions.onRetry = "undefined"

\* withBackoff has been invoked.
Invoked == pc /= "start"

\* Once settled, withBackoff stays settled as it is and calls nothing.
SettledForGood ==
    [][Done => /\ Done'
               /\ UNCHANGED <<result, opCalls, predLog, retryLog, waits>>]_vars

\* C24 (as claimed): for maxAttempts >= 0, if every operation invocation,
\* predicate evaluation, onRetry call and delay wait completes, withBackoff
\* eventually settles, in exactly one terminal outcome (a value, an error of
\* the operation, the predicate or onRetry, or an AbortError), after at most
\* maxAttempts invocations, and calls nothing after settling; if an
\* invocation never settles it still settles provided the signal is
\* eventually aborted.
C24_SettlesInListedOutcome ==
    /\ WF_vars(OpSettles) => (Invoked ~> Done)
    /\ <>(HasSignal /\ signal.aborted) => (Invoked ~> Done)
    /\ [](Done => (ListedOutcome /\ opCalls <= mergedOptions.maxAttempts))
    /\ SettledForGood

\* C24 (amended): the same, with the terminal outcomes being a value, an
\* error of the operation, the predicate or onRetry, an AbortError, the
\* generic Error("Max attempts exceeded") when maxAttempts = 0, or the
\* TypeError of calling an onRetry that is undefined.
C24_Settles ==
    /\ WF_vars(OpSettles) => (Invoked ~> Done)
    /\ <>(HasSignal /\ signal.aborted) => (Invoked ~> Done)
    /\ [](Done => (TerminalOutcome /\ opCalls <= mergedOptions.maxAttempts))
    /\ SettledForGood

\* A run that used its whole budget of MaxN invocations and is settled with
\* the last error.
C24_Witness ==
    /\ Done
    /\ mergedOptions.maxAttempts = MaxN
    /\ opCalls = MaxN
    /\ Len(opLog) = MaxN
    /\ result = Rejected(opLog[MaxN].error)

\* A run settled by the abort while its invocation never settled.
C24_WitnessOutstanding ==
    /\ Done
    /\ abortedAt = "attempt"
    /\ opPending
    /\ Len(opLog) = opCalls - 1
    /\ result.error.cls = "AbortError"

\* A budget of 0: settled at once with the generic error.
C24_WitnessEmptyBudget ==
    /\ Done
    /\ mergedOptions.maxAttempts = 0
    /\ opCalls = 0
    /\ result = Rejected(MaxAttemptsExceeded)

====
